---------------------------- MODULE Spec2Model ----------------------------
(***************************************************************************)
(* Hybrid recommendation engine of the room-booking backend.               *)
(*                                                                         *)
(* BaseRecommendationEngine  (services/recommendation/utils/base_engine.py)*)
(* HybridRecommendationEngine (services/recommendation/hybrid_engine.py)   *)
(*                                                                         *)
(* Representation                                                          *)
(*  - a datetime, and the ISO-8601 string of a datetime at second          *)
(*    granularity, is its integer epoch second (time zone UTC);            *)
(*  - a dict is a record whose DOMAIN is exactly the dict's key set;       *)
(*  - a score is an integer number of 1/3000, a weight an                  *)
(*    integer number of 1/1000, a final_score an integer number of         *)
(*    1/3000000: every constant of the code is a whole number of units;    *)
(*  - a string that is no date is NotATime;                                *)
(*  - every clock reading of one call gives the same instant: a call is    *)
(*    over in far less than a second;                                      *)
(*  - the rows of a query without a total ORDER BY come in ascending        *)
(*    primary key among equal sort keys.                                   *)
(***************************************************************************)
EXTENDS Integers, Sequences, FiniteSets, TLC

VARIABLES
    rooms,          \* table mrbs_room: set of room rows
    entries,        \* table mrbs_entry: set of booking rows
    pc,             \* "new" before the engine is constructed, then "ready", and
                    \* "done" / "base_done" / "probed" / "room_done" /
                    \* "time_done" / "proactive_done" / "smart_done" while
                    \* a result is held
    ml_available,   \* HybridRecommendationEngine.ml_available
    llm_available,  \* HybridRecommendationEngine.llm_available
    mode,           \* HybridRecommendationEngine.mode
    base_weights,   \* HybridRecommendationEngine.base_weights
    request,        \* request_data of the last get_recommendations call
    env,            \* execution context of the last call (event loop, raising queries)
    response,       \* list returned by the last get_recommendations call
    probe,          \* last direct availability query and its answer
    now,            \* the wall clock, as datetime.now() reads it
    swaps,          \* table swap_requests: set of swap rows
    next_id,        \* the AUTO_INCREMENT counter of mrbs_entry.id
    txns            \* the add_booking request each worker is serving, and
                    \* how far it has got

vars == <<rooms, entries, pc, ml_available, llm_available, mode, base_weights,
          request, env, response, probe, now, swaps, next_id, txns>>

(***************************************************************************)
(* Bounds of the model.                                                    *)
(***************************************************************************)
MaxEntries == 2
MaxBooked == 10

(***************************************************************************)
(* Time.                                                                   *)
(***************************************************************************)
Minute == 60
Hour == 60 * Minute
Day == 24 * Hour

\* 2025-08-15T00:00:00Z, a Friday: day 20315 of the epoch
BaseDay == 20315 * Day

At(day, h, m, s) == BaseDay + day * Day + h * Hour + m * Minute + s

\* datetime.date(): the day number of a timestamp
DateOf(t) == t \div Day

\* datetime.time(): seconds since midnight
TimeOf(t) == t % Day

\* datetime.hour, HOUR(FROM_UNIXTIME(t))
HourOf(t) == (t % Day) \div Hour

\* datetime.weekday(): Monday = 0 .. Sunday = 6 (1970-01-01 was a Thursday)
Weekday(t) == (DateOf(t) + 3) % 7

\* MySQL DAYOFWEEK(FROM_UNIXTIME(t)): Sunday = 1 .. Saturday = 7
DayOfWeek(t) == ((Weekday(t) + 1) % 7) + 1

\* datetime.combine(date, time)
Combine(date, secs) == date * Day + secs

\* int(x / y) for y > 0: truncation toward zero
TruncDiv(x, y) == IF x >= 0 THEN x \div y ELSE -((-x) \div y)

Abs(x) == IF x < 0 THEN -x ELSE x
Min(a, b) == IF a <= b THEN a ELSE b
Max(a, b) == IF a >= b THEN a ELSE b

(***************************************************************************)
(* Scores.                                                                 *)
(***************************************************************************)
\* the score written x/1000 in the code
P(x) == 3 * x

(***************************************************************************)
(* Dicts.                                                                  *)
(***************************************************************************)
Has(d, k) == k \in DOMAIN d
Get(d, k, default) == IF k \in DOMAIN d THEN d[k] ELSE default
Put(d, k, v) == (k :> v) @@ d
\* None where a dict is expected: `k in None` raises TypeError
NoneDict == [is_none |-> TRUE]
IsNone(d) == Has(d, "is_none")

(***************************************************************************)
(* Lists.                                                                  *)
(***************************************************************************)
\* list[:n]
Take(s, n) == SubSeq(s, 1, Min(n, Len(s)))

\* sorted(s, key=...): stable; less[j, i] says that the key of s[j] is
\* strictly below the key of s[i]
SortedBy(s, less) ==
    LET n == Len(s)
        before(j, i) == \/ less[j, i]
                        \/ (~less[i, j] /\ j < i)
        rank(i) == Cardinality({j \in 1..n : j # i /\ before(j, i)}) + 1
    IN  [p \in 1..n |-> s[CHOOSE i \in 1..n : rank(i) = p]]

\* rows of a query: ORDER BY key, ties in ascending primary key
RECURSIVE OrderBy(_, _)
OrderBy(S, key) ==
    IF S = {} THEN <<>>
    ELSE LET m == CHOOSE x \in S : \A y \in S :
                      \/ key[x] < key[y]
                      \/ (key[x] = key[y] /\ x.id <= y.id)
         IN  <<m>> \o OrderBy(S \ {m}, key)

(***************************************************************************)
(* The booking store, as the engine reads it.                              *)
(***************************************************************************)
\* the room lookup without the filter disabled == False
FindRoomDisabledToo(name) ==
    LET found == {r \in rooms : r.room_name = name}
    IN  IF found = {} THEN <<>> ELSE <<CHOOSE r \in found : TRUE>>

\* db.query(MRBSRoom).filter(room_name == name, disabled == False).first()
FindRoom(name) ==
    LET found == {r \in rooms : r.room_name = name /\ ~r.disabled}
    IN  IF found = {} THEN <<>> ELSE <<CHOOSE r \in found : TRUE>>

\* the overlap filter with both comparisons inclusive
ConflictRowsInclusive(room_id, start_ts, end_ts) ==
    {e \in entries : /\ e.room_id = room_id
                     /\ e.start_time <= end_ts
                     /\ e.end_time >= start_ts
                     /\ e.status = 0}

\* the overlap filter of every conflict query:
\*   room_id == room, start_time < end_ts, end_time > start_ts, status == 0
ConflictRows(room_id, start_ts, end_ts) ==
    {e \in entries : /\ e.room_id = room_id
                     /\ e.start_time < end_ts
                     /\ e.end_time > start_ts
                     /\ e.status = 0}

\* ....count()
Conflicts(room_id, start_ts, end_ts) ==
    Cardinality(ConflictRows(room_id, start_ts, end_ts))

\* a strategy that takes every listed room
NoConflictsUnchecked(room_id, start_ts, end_ts) == TRUE

\* the test "if conflicts == 0" of the room strategies
NoConflicts(room_id, start_ts, end_ts) == Conflicts(room_id, start_ts, end_ts) = 0

\* _is_time_slot_available: a query that raises is answered "not available"
IsTimeSlotAvailable(room_id, start_time, end_time, query_raises) ==
    IF query_raises THEN FALSE
    ELSE Conflicts(room_id, start_time, end_time) = 0

(***************************************************************************)
(* BaseRecommendationEngine: the four strategies.                          *)
(* rd is request_data; raising is the set of queries that raise during the *)
(* call.                                                                   *)
(***************************************************************************)
\* request_data.get('start_time', '') of a request without the key, or any
\* other string that neither fromisoformat nor strptime accepts
NotATime == -1

\* _parse_datetime: the ValueError of a malformed string is caught and the
\* current time returned
ParseDatetime(time_str) == IF time_str = NotATime THEN now ELSE time_str

\* _calculate_time_proximity_score
CalculateTimeProximityScore(alt_time, requested_time) ==
    LET diff == Abs(alt_time - requested_time)
        s1 == IF diff * 2 <= Hour THEN P(850) + P(100)
              ELSE IF diff <= Hour THEN P(850) + P(50)
              ELSE IF diff > 4 * Hour THEN P(850) - P(100)
              ELSE P(850)
        h == HourOf(alt_time)
        s2 == IF 9 <= h /\ h <= 17 THEN s1 + P(50)
              ELSE IF ~(8 <= h /\ h <= 18) THEN s1 - P(200)
              ELSE s1
    IN  Min(s2, P(1000))

\* _calculate_room_similarity_score; original is <<>> or <<room>>
CalculateRoomSimilarityScore(room, original) ==
    LET capacity_diff == Abs(room.capacity - original[1].capacity)
        s1 == IF capacity_diff = 0 THEN P(750) + P(200)
              ELSE IF capacity_diff <= 2 THEN P(750) + P(100)
              ELSE P(750)
        s2 == IF room.area_id = original[1].area_id THEN s1 + P(100) ELSE s1
    IN  IF original = <<>> THEN P(750) ELSE Min(s2, P(1000))

\* the time_slots list of _get_same_day_alternatives
SameDayTimeSlots(requested_start) ==
    << [start |-> requested_start - 30 * Minute, description |-> "30 minutes earlier"],
       [start |-> requested_start + 30 * Minute, description |-> "30 minutes later"],
       [start |-> requested_start - Hour,        description |-> "1 hour earlier"],
       [start |-> requested_start + Hour,        description |-> "1 hour later"],
       [start |-> Combine(DateOf(requested_start), 9 * Hour),  description |-> "9:00 AM"],
       [start |-> Combine(DateOf(requested_start), 14 * Hour), description |-> "2:00 PM"] >>

\* _get_same_day_alternatives
GetSameDayAlternatives(room, requested_start, duration, room_name, raising) ==
    LET keep(slot) ==
            /\ ~(DateOf(slot.start) # DateOf(requested_start) \/ slot.start = requested_start)
            /\ IsTimeSlotAvailable(room.id, slot.start, slot.start + duration,
                                   "availability" \in raising)
        kept == SelectSeq(SameDayTimeSlots(requested_start), keep)
        rec(slot) ==
            LET score == CalculateTimeProximityScore(slot.start, requested_start)
            IN  [type |-> "alternative_time",
                 score |-> score,
                 reason |-> <<"Same day -", slot.description>>,
                 suggestion |-> [room_id |-> room_name,
                                 room_name |-> room_name,
                                 capacity |-> room.capacity,
                                 start_time |-> slot.start,
                                 end_time |-> slot.start + duration,
                                 confidence |-> score,
                                 duration_minutes |-> TruncDiv(duration, Minute)],
                 is_same_day |-> TRUE]
    IN  [i \in 1..Len(kept) |-> rec(kept[i])]

\* next_date.strftime of the day day_offset days after the request
DayName(day_offset) ==
    <<"day +1", "day +2", "day +3", "day +4", "day +5", "day +6">>[day_offset]

\* _get_next_day_alternatives
GetNextDayAlternatives(room, requested_start, duration, room_name, max_days, raising) ==
    LET slot(day_offset) ==
            Combine(DateOf(requested_start) + day_offset, TimeOf(requested_start))
        keep(day_offset) ==
            IsTimeSlotAvailable(room.id, slot(day_offset), slot(day_offset) + duration,
                                "availability" \in raising)
        kept == SelectSeq([d \in 1..max_days |-> d], keep)
        rec(day_offset) ==
            LET score == P(700) - day_offset * P(100)
            IN  [type |-> "alternative_time",
                 score |-> Max(score, P(300)),
                 reason |-> <<"Next day - Same time on", DayName(day_offset)>>,
                 suggestion |-> [room_id |-> room_name,
                                 room_name |-> room_name,
                                 capacity |-> room.capacity,
                                 start_time |-> slot(day_offset),
                                 end_time |-> slot(day_offset) + duration,
                                 confidence |-> Max(score, P(300)),
                                 duration_minutes |-> TruncDiv(duration, Minute)],
                 is_same_day |-> FALSE]
    IN  [i \in 1..Len(kept) |-> rec(kept[i])]

\* the sort key of _get_alternative_time_recommendations without reverse=True
AltTimeBeforeAscending(a, b) ==
    \/ (~a.is_same_day /\ b.is_same_day)
    \/ (a.is_same_day = b.is_same_day /\ a.score < b.score)

\* the sort key of _get_alternative_time_recommendations, reverse=True
AltTimeBefore(a, b) ==
    \/ (a.is_same_day /\ ~b.is_same_day)
    \/ (a.is_same_day = b.is_same_day /\ a.score > b.score)

\* an alternative-time strategy that searches the next days whatever the
\* same-day search found
GetAlternativeTimeAlwaysNextDay(rd, raising) ==
    LET room_name == rd.room_id
        start_time == ParseDatetime(rd.start_time)
        end_time == ParseDatetime(rd.end_time)
        room == FindRoom(room_name)
        duration == end_time - start_time
        same_day == GetSameDayAlternatives(room[1], start_time, duration, room_name, raising)
        next_day == GetNextDayAlternatives(room[1], start_time, duration,
                                           room_name, 5, raising)
        sorted(alternatives) ==
            SortedBy(alternatives,
                     [j \in 1..Len(alternatives), i \in 1..Len(alternatives) |->
                         AltTimeBefore(alternatives[j], alternatives[i])])
    IN  IF room = <<>> THEN <<>>
        ELSE Take(sorted(same_day \o next_day), 8)

\* _get_alternative_time_recommendations
GetAlternativeTimeRecommendations(rd, raising) ==
    LET room_name == rd.room_id
        start_time == ParseDatetime(rd.start_time)
        end_time == ParseDatetime(rd.end_time)
        room == FindRoom(room_name)
        duration == end_time - start_time
        same_day == GetSameDayAlternatives(room[1], start_time, duration, room_name, raising)
        next_day == IF Len(same_day) < 3
                    THEN GetNextDayAlternatives(room[1], start_time, duration,
                                                room_name, 5, raising)
                    ELSE <<>>
        sorted(alternatives) ==
            SortedBy(alternatives,
                     [j \in 1..Len(alternatives), i \in 1..Len(alternatives) |->
                         AltTimeBefore(alternatives[j], alternatives[i])])
    IN  IF room = <<>> THEN <<>>
        ELSE Take(sorted(same_day \o next_day), 8)

\* _get_alternative_room_recommendations
GetAlternativeRoomRecommendations(rd) ==
    LET room_name == rd.room_id
        start_time == ParseDatetime(rd.start_time)
        end_time == ParseDatetime(rd.end_time)
        capacity_required == rd.capacity
        duration == end_time - start_time
        original_room == FindRoom(room_name)
        alternative_rooms == {r \in rooms : /\ ~r.disabled
                                            /\ r.room_name # room_name
                                            /\ r.capacity >= capacity_required}
        key == [r \in alternative_rooms |->
                   IF original_room = <<>> THEN 0
                   ELSE Abs(r.capacity - original_room[1].capacity)]
        listed == Take(OrderBy(alternative_rooms, key), 10)
        free(room) == NoConflicts(room.id, start_time, end_time)
        rec(room) ==
            LET score == CalculateRoomSimilarityScore(room, original_room)
            IN  [type |-> "alternative_room",
                 score |-> score,
                 reason |-> <<"Room available", room.room_name>>,
                 suggestion |-> [room_id |-> room.room_name,
                                 room_name |-> room.room_name,
                                 capacity |-> room.capacity,
                                 start_time |-> start_time,
                                 end_time |-> end_time,
                                 date |-> DateOf(start_time),
                                 duration_minutes |-> TruncDiv(duration, Minute),
                                 confidence |-> score],
                 data_source |-> "base_engine"]
        kept == Take(SelectSeq(listed, free), 5)
    IN  [i \in 1..Len(kept) |-> rec(kept[i])]

\* _get_proactive_recommendations
GetProactiveRecommendations(rd) ==
    LET user_id == rd.user_id
        start_time == ParseDatetime(rd.start_time)
        end_time == ParseDatetime(rd.end_time)
        history_start == start_time - 90 * Day
        joined(r) == {e \in entries : /\ e.room_id = r.id
                                      /\ e.create_by = user_id
                                      /\ e.start_time >= history_start}
        groups == {r \in rooms : ~r.disabled /\ joined(r) # {}}
        key == [r \in groups |-> 0 - Cardinality(joined(r))]
        user_bookings == Take(OrderBy(groups, key), 5)
        free(room) == NoConflicts(room.id, start_time, end_time)
        rec(room) ==
            LET booking_count == Cardinality(joined(room))
                score == P(700) + Min(booking_count * P(50), P(200))
            IN  [type |-> "proactive",
                 score |-> Min(score, P(1000)),
                 reason |-> <<"You booked recently", room.room_name>>,
                 suggestion |-> [room_id |-> room.room_name,
                                 room_name |-> room.room_name,
                                 capacity |-> room.capacity,
                                 start_time |-> start_time,
                                 end_time |-> end_time,
                                 confidence |-> Min(score, P(1000))]]
        kept == SelectSeq(user_bookings, free)
    IN  [i \in 1..Len(kept) |-> rec(kept[i])]

\* _get_smart_scheduling_recommendations
GetSmartSchedulingRecommendations(rd) ==
    LET start_time == ParseDatetime(rd.start_time)
        end_time == ParseDatetime(rd.end_time)
        requested_hour == HourOf(start_time)
        requested_day_of_week == Weekday(start_time)
        history_start == start_time - 30 * Day
        joined(r) == {e \in entries : /\ e.room_id = r.id
                                      /\ e.start_time >= history_start
                                      /\ HourOf(e.start_time) = requested_hour
                                      /\ DayOfWeek(e.start_time) = requested_day_of_week + 1}
        groups == {r \in rooms : ~r.disabled}
        key == [r \in groups |-> Cardinality(joined(r))]
        room_utilization == Take(OrderBy(groups, key), 10)
        free(room) == NoConflicts(room.id, start_time, end_time)
        rec(room) ==
            LET bookings_count == Cardinality(joined(room))
                \* max(0.5, 1.0 - (bookings_count / 30) * 0.1)
                score == Max(P(500), P(1000) - bookings_count * 10)
            IN  [type |-> "smart_scheduling",
                 score |-> score,
                 reason |-> <<"low utilization at this time", room.room_name>>,
                 suggestion |-> [room_id |-> room.room_name,
                                 room_name |-> room.room_name,
                                 capacity |-> room.capacity,
                                 start_time |-> start_time,
                                 end_time |-> end_time,
                                 confidence |-> score]]
        kept == Take(SelectSeq(room_utilization, free), 3)
    IN  [i \in 1..Len(kept) |-> rec(kept[i])]

\* a fallback that proposes what its reason says: one hour earlier
CreateFallbackOneHourEarlier(rd) ==
    << [type |-> "alternative_time",
        score |-> P(750),
        reason |-> <<"Room available 1 hour earlier", rd.room_id>>,
        suggestion |-> [room_id |-> rd.room_id,
                        start_time |-> rd.start_time - Hour,
                        end_time |-> rd.end_time - Hour,
                        confidence |-> P(750)]] >>

\* _create_fallback_recommendations
CreateFallbackRecommendations(rd) ==
    << [type |-> "alternative_time",
        score |-> P(750),
        reason |-> <<"Room available 1 hour earlier", rd.room_id>>,
        suggestion |-> [room_id |-> rd.room_id,
                        start_time |-> rd.start_time,
                        end_time |-> rd.end_time,
                        confidence |-> P(750)]] >>

\* one strategy call inside its try/except of get_recommendations
Guarded(strategy, recs, raising) == IF strategy \in raising THEN <<>> ELSE recs

\* the four strategy calls inside one try/except: one raise loses them all
StrategyRecommendationsOneTry(rd, raising) ==
    IF raising \cap {"alternative_time", "alternative_room", "proactive",
                     "smart_scheduling"} # {}
    THEN <<>>
    ELSE    GetAlternativeTimeRecommendations(rd, raising)
         \o GetAlternativeRoomRecommendations(rd)
         \o GetProactiveRecommendations(rd)
         \o GetSmartSchedulingRecommendations(rd)

\* the list built by the four guarded strategy calls
StrategyRecommendations(rd, raising) ==
       Guarded("alternative_time", GetAlternativeTimeRecommendations(rd, raising), raising)
    \o Guarded("alternative_room", GetAlternativeRoomRecommendations(rd), raising)
    \o Guarded("proactive", GetProactiveRecommendations(rd), raising)
    \o Guarded("smart_scheduling", GetSmartSchedulingRecommendations(rd), raising)

\* get_recommendations without "if not recommendations"
BaseGetRecommendationsNoFallback(rd, raising) == StrategyRecommendations(rd, raising)

\* BaseRecommendationEngine.get_recommendations
BaseGetRecommendations(rd, raising) ==
    LET result(recommendations) ==
            IF recommendations = <<>> THEN CreateFallbackRecommendations(rd)
            ELSE recommendations
    IN  result(StrategyRecommendations(rd, raising))

(***************************************************************************)
(* HybridRecommendationEngine.                                             *)
(***************************************************************************)
\* f'Room_{i+1}' for the i-th element of a list (i counted from 1 here)
PlaceholderName(i) ==
    <<"Room_1", "Room_2", "Room_3", "Room_4", "Room_5", "Room_6", "Room_7",
      "Room_8", "Room_9", "Room_10", "Room_11", "Room_12", "Room_13", "Room_14",
      "Room_15", "Room_16", "Room_17", "Room_18", "Room_19", "Room_20",
      "Room_21", "Room_22", "Room_23", "Room_24">>[i]

\* _get_base_recommendations
GetBaseRecommendations(rd, raising) ==
    LET annotate(rec, i) ==
            LET r1 == IF Has(rec, "base_score") THEN rec
                      ELSE Put(rec, "base_score", Get(rec, "score", P(500)))
            IN  Put(r1, "room_name",
                    Get(rec.suggestion, "room_name", PlaceholderName(i)))
        annotated(recs) == [i \in 1..Len(recs) |-> annotate(recs[i], i)]
    IN  annotated(BaseGetRecommendations(rd, raising))

\* get_user_booking_history(request_data, user_id, days): the user's own
\* bookings of the trailing days, each with its room name
GetUserBookingHistory(rd, user_id, days) ==
    LET since == ParseDatetime(rd.start_time) - days * Day
        mine == {e \in entries : e.create_by = user_id /\ e.start_time >= since}
    IN  {[id |-> e.id,
          room_name |-> (CHOOSE r \in rooms : r.id = e.room_id).room_name] : e \in mine}

\* _prepare_user_context_sync
PrepareUserContext(rd) ==
    [user_id |-> rd.user_id,
     request_data |-> rd,
     booking_history |-> GetUserBookingHistory(rd, rd.user_id, 30)]

\* str.lower() of the room names and request words of the model
Lower(text) ==
    CASE text = "LT1" -> "lt1"
      [] text = "LT2" -> "lt2"
      [] text = "Meeting Room A" -> "meeting room a"
      [] OTHER -> text

\* kw in text, for lower-case text
Contains(text, kw) ==
    <<text, kw>> \in {<<"lt1", "lt">>, <<"lt2", "lt">>,
                      <<"meeting room a", "meeting">>,
                      <<"lecture", "lecture">>, <<"meeting", "meeting">>,
                      <<"conference", "conference">>, <<"board", "board">>}

\* _calculate_ml_score_sync
CalculateMlScore(rec, user_context) ==
    LET room_name == Get(rec, "room_name", "")
        room_usage == Cardinality({b \in user_context.booking_history :
                                      b.room_name = room_name})
        base_score == IF room_usage > 0
                      THEN P(500) + Min(room_usage * P(20), P(100))
                      ELSE P(500)
    IN  Min(base_score, P(1000))

\* _calculate_llm_score_sync
CalculateLlmScore(rec, user_context) ==
    LET room_name == Lower(Get(rec, "room_name", ""))
        request_data == user_context.request_data
        meeting_type == Lower(Get(request_data, "meeting_type", "general"))
        purpose == Lower(Get(request_data, "purpose", "general"))
        base_score ==
            IF Contains(meeting_type, "conference") /\ Contains(room_name, "conference")
                THEN P(600) + P(50)
            ELSE IF Contains(meeting_type, "board") /\ Contains(room_name, "board")
                THEN P(600) + P(50)
            ELSE IF Contains(purpose, "meeting") /\ Contains(room_name, "meeting")
                THEN P(600) + P(30)
            ELSE IF Contains(purpose, "lecture") /\ Contains(room_name, "lt")
                THEN P(600) + P(50)
            ELSE P(600)
    IN  Min(base_score, P(1000))

\* the names that get an entry in the score dict of _run_*_analysis_sync
ScoredNames(recommendations) ==
    {Get(recommendations[i], "room_name", "") : i \in 1..Len(recommendations)} \ {""}

\* a recommendation of the list that carries the name
RecNamed(recommendations, name) ==
    recommendations[CHOOSE i \in 1..Len(recommendations) :
                        Get(recommendations[i], "room_name", "") = name]

\* _run_ml_analysis_sync (the component is available when it is called)
RunMlAnalysis(recommendations, user_context) ==
    [name \in ScoredNames(recommendations) |->
        CalculateMlScore(RecNamed(recommendations, name), user_context)]

\* _run_llm_analysis_sync (the component is available when it is called)
RunLlmAnalysis(recommendations, user_context) ==
    [name \in ScoredNames(recommendations) |->
        CalculateLlmScore(RecNamed(recommendations, name), user_context)]

\* _calculate_final_scores
CalculateFinalScores(recommendations, ml_scores, llm_scores, weights) ==
    LET enhance(rec) ==
            LET room_name == Get(rec, "room_name", "")
                base_score == Get(rec, "score", P(500))
                ml_score == Get(ml_scores, room_name, P(500))
                llm_score == Get(llm_scores, room_name, P(500))
                final_score == weights.existing_system * base_score
                               + weights.ml_similarity * ml_score
                               + weights.llm_context * llm_score
            IN  Put(Put(Put(Put(rec, "final_score", final_score),
                            "ml_score", ml_score),
                        "llm_score", llm_score),
                    "score_breakdown", [base |-> base_score, ml |-> ml_score,
                                        llm |-> llm_score, final |-> final_score,
                                        weights |-> weights])
    IN  [i \in 1..Len(recommendations) |-> enhance(recommendations[i])]

\* priority_map.get(type, 5) of _sort_by_priority
Priority(type) ==
    CASE type = "alternative_room" -> 1
      [] type = "alternative_time" -> 2
      [] type = "smart_scheduling" -> 3
      [] type = "proactive" -> 4
      [] OTHER -> 5

\* the sort key of _sort_by_priority: (priority, -final_score)
PriorityBefore(a, b) ==
    LET pa == Priority(Get(a, "type", "default"))
        pb == Priority(Get(b, "type", "default"))
    IN  \/ pa < pb
        \/ (pa = pb /\ 0 - Get(a, "final_score", 0) < 0 - Get(b, "final_score", 0))

\* _sort_by_priority
SortByPriority(recommendations) ==
    SortedBy(recommendations,
             [j \in 1..Len(recommendations), i \in 1..Len(recommendations) |->
                 PriorityBefore(recommendations[j], recommendations[i])])

\* _validate_and_fix_durations with an except branch that leaves the
\* candidate out
ValidateAndFixDurationsDropping(recommendations, expected_duration_minutes) ==
    LET keep(rec) == ~IsNone(Get(rec, "suggestion", <<>>))
        fix(rec) ==
            LET suggestion == Get(rec, "suggestion", <<>>)
                start_time == ParseDatetime(suggestion.start_time)
                corrected_end_time == start_time + expected_duration_minutes * Minute
                fixed == Put(Put(Put(suggestion, "end_time", corrected_end_time),
                                 "duration_minutes", expected_duration_minutes),
                             "duration_hours", <<expected_duration_minutes, 60>>)
            IN  IF Has(suggestion, "start_time")
                THEN Put(Put(Put(rec, "suggestion", fixed),
                             "start_time", suggestion.start_time),
                         "end_time", corrected_end_time)
                ELSE rec
        kept == SelectSeq(recommendations, keep)
    IN  [i \in 1..Len(kept) |-> fix(kept[i])]

\* _validate_and_fix_durations.  The test `'start_time' in suggestion` raises
\* for a suggestion of None, before anything is written, and the except
\* branch appends the candidate as it is; _parse_datetime does not raise.
ValidateAndFixDurations(recommendations, expected_duration_minutes) ==
    LET fix(rec) ==
            LET suggestion == Get(rec, "suggestion", <<>>)
                start_time == ParseDatetime(suggestion.start_time)
                corrected_end_time == start_time + expected_duration_minutes * Minute
                fixed == Put(Put(Put(suggestion, "end_time", corrected_end_time),
                                 "duration_minutes", expected_duration_minutes),
                             "duration_hours", <<expected_duration_minutes, 60>>)
            IN  IF IsNone(suggestion) THEN rec
                ELSE IF Has(suggestion, "start_time")
                THEN Put(Put(Put(rec, "suggestion", fixed),
                             "start_time", suggestion.start_time),
                         "end_time", corrected_end_time)
                ELSE rec
    IN  [i \in 1..Len(recommendations) |-> fix(recommendations[i])]

\* _get_enhanced_recommendations_sync; raises when the user context cannot be built
GetEnhancedRecommendationsSync(rd, raising, ml_ok, llm_ok, weights) ==
    LET enhanced_recs(base_recs, user_context) ==
            CalculateFinalScores(
                base_recs,
                IF ml_ok THEN RunMlAnalysis(base_recs, user_context) ELSE <<>>,
                IF llm_ok THEN RunLlmAnalysis(base_recs, user_context) ELSE <<>>,
                weights)
    IN  Take(SortByPriority(enhanced_recs(GetBaseRecommendations(rd, raising),
                                          PrepareUserContext(rd))), 8)

\* _get_enhanced_recommendations_async
GetEnhancedRecommendationsAsync(rd, raising, ml_ok, llm_ok, weights) ==
    LET enhanced_recs(base_recs, user_context) ==
            CalculateFinalScores(
                base_recs,
                IF ml_ok THEN RunMlAnalysis(base_recs, user_context) ELSE <<>>,
                IF llm_ok THEN RunLlmAnalysis(base_recs, user_context) ELSE <<>>,
                weights)
    IN  Take(SortByPriority(enhanced_recs(BaseGetRecommendations(rd, raising),
                                          PrepareUserContext(rd))), 8)

\* the minutes computed at the head of get_recommendations
UserDurationMinutes(rd) ==
    TruncDiv(ParseDatetime(rd.end_time) - ParseDatetime(rd.start_time), Minute)

\* an except branch that returns the base list as it is
FallbackPathUnnormalized(rd, raising) == GetBaseRecommendations(rd, raising)

\* the except branch of get_recommendations
FallbackPath(rd, raising) ==
    ValidateAndFixDurations(GetBaseRecommendations(rd, raising), UserDurationMinutes(rd))

\* the try block of get_recommendations, when nothing raises
EnhancedPath(rd, loop, raising, ml_ok, llm_ok, weights) ==
    LET recommendations ==
            IF loop
            THEN GetEnhancedRecommendationsSync(rd, raising, ml_ok, llm_ok, weights)
            ELSE GetEnhancedRecommendationsAsync(rd, raising, ml_ok, llm_ok, weights)
    IN  ValidateAndFixDurations(recommendations, UserDurationMinutes(rd))

\* HybridRecommendationEngine.get_recommendations
HybridGetRecommendations(rd, loop, raising, ml_ok, llm_ok, weights) ==
    IF "user_context" \in raising
    THEN FallbackPath(rd, raising)
    ELSE EnhancedPath(rd, loop, raising, ml_ok, llm_ok, weights)

\* _configure_scoring: the mode
ConfigureMode(ml_ok, llm_ok) ==
    IF ml_ok /\ llm_ok THEN "full_hybrid"
    ELSE IF ml_ok THEN "ml_enhanced"
    ELSE IF llm_ok THEN "llm_enhanced"
    ELSE "standard"

\* _configure_scoring: the weights, in 1/1000
ConfigureWeights(ml_ok, llm_ok) ==
    IF ml_ok /\ llm_ok
        THEN [existing_system |-> 850, ml_similarity |-> 75, llm_context |-> 75]
    ELSE IF ml_ok
        THEN [existing_system |-> 900, ml_similarity |-> 100, llm_context |-> 0]
    ELSE IF llm_ok
        THEN [existing_system |-> 900, ml_similarity |-> 0, llm_context |-> 100]
    ELSE [existing_system |-> 1000, ml_similarity |-> 0, llm_context |-> 0]

(***************************************************************************)
(* The weights as Python floats.  A double in [0, 2) is the pair <<hi, lo>>*)
(* of its value in units of 2^-56: value = (hi * 2^28 + lo) * 2^-56.       *)
(***************************************************************************)
Limb == 16384 * 16384

\* the double a weight literal of _configure_scoring denotes (w in 1/1000):
\* 0.85 = 0x1.b333333333333p-1, 0.075 = 0x1.3333333333333p-4,
\* 0.9 = 0x1.ccccccccccccdp-1, 0.1 = 0x1.999999999999ap-4
DoubleOf(w) ==
    CASE w = 850  -> <<228170137, 161061272>>
      [] w = 75   -> <<20132659, 53687091>>
      [] w = 900  -> <<241591910, 107374184>>
      [] w = 100  -> <<26843545, 161061274>>
      [] w = 1000 -> <<Limb, 0>>
      [] w = 0    -> <<0, 0>>

\* the unit in the last place of a double in [2^-4, 2), in units of 2^-56
Ulp(d) ==
    IF d[1] >= Limb THEN 16
    ELSE IF d[1] * 2 >= Limb THEN 8
    ELSE IF d[1] * 4 >= Limb THEN 4
    ELSE IF d[1] * 8 >= Limb THEN 2
    ELSE 1

\* float.__add__: the exact sum rounded to nearest, ties to even
FAdd(a, b) ==
    LET lo == (a[2] + b[2]) % Limb
        hi == a[1] + b[1] + ((a[2] + b[2]) \div Limb)
        ulp == Ulp(<<hi, lo>>)
        rem == lo % ulp
        down == lo - rem
        up == rem * 2 > ulp \/ (rem * 2 = ulp /\ (down \div ulp) % 2 = 1)
        rounded == IF up THEN down + ulp ELSE down
    IN  <<hi + (rounded \div Limb), rounded % Limb>>

\* base_weight + ml_weight + llm_weight as Python evaluates it, left to right
WeightSum(weights) ==
    FAdd(FAdd(DoubleOf(weights.existing_system), DoubleOf(weights.ml_similarity)),
         DoubleOf(weights.llm_context))

(***************************************************************************)
(* The inputs of the model.                                                *)
(***************************************************************************)
Room(id, name, capacity, area, disabled) ==
    [id |-> id, room_name |-> name, capacity |-> capacity, area_id |-> area,
     disabled |-> disabled]

Entry(id, room_id, start_time, end_time, status, create_by) ==
    [id |-> id, room_id |-> room_id, start_time |-> start_time,
     end_time |-> end_time, status |-> status, create_by |-> create_by]

\* the contents of mrbs_room the model starts from
RoomTables ==
    { {Room(1, "LT1", 50, 1, FALSE), Room(2, "LT2", 50, 1, FALSE),
       Room(3, "Meeting Room A", 10, 2, FALSE)},
      {Room(1, "LT1", 50, 1, FALSE), Room(2, "LT2", 48, 1, TRUE),
       Room(3, "Meeting Room A", 10, 2, FALSE)},
      {Room(1, "LT1", 50, 1, FALSE), Room(2, "LT2", 51, 2, FALSE),
       Room(3, "Meeting Room A", 52, 1, FALSE)},
      {} }

\* the bookings that may be stored
EntryPool ==
    { Entry(1, 1, At(0, 10, 0, 0),  At(0, 11, 0, 0),  0, "u2"),
      Entry(2, 1, At(0, 9, 0, 0),   At(0, 10, 0, 0),  0, "u1"),
      Entry(3, 1, At(0, 11, 0, 0),  At(0, 15, 0, 0),  0, "u2"),
      Entry(4, 1, At(1, 10, 0, 0),  At(1, 11, 0, 0),  0, "u2"),
      Entry(5, 2, At(0, 10, 0, 0),  At(0, 11, 0, 0),  0, "u1"),
      Entry(6, 2, At(0, 10, 0, 0),  At(0, 11, 0, 0),  1, "u1"),
      Entry(7, 3, At(0, 10, 15, 0), At(0, 10, 45, 0), 0, "u1"),
      Entry(8, 3, At(-8, 10, 0, 0), At(-8, 11, 0, 0), 0, "u1"),
      Entry(9, 3, At(-7, 10, 0, 0), At(-7, 11, 0, 0), 1, "u2") }

\* the valid requests (end > start) the engine is called with
Requests ==
    { [user_id |-> "u1", room_id |-> room, start_time |-> start,
       end_time |-> start + duration, capacity |-> 1, purpose |-> "lecture"] :
        room \in {"LT1", "Annex"},
        start \in {At(0, 10, 0, 0), At(0, 23, 15, 0)},
        duration \in {30 * Minute, 30 * Minute + 30, 4 * Hour} }

Strategies == {"alternative_time", "alternative_room", "proactive", "smart_scheduling"}

\* the sets of queries that raise during one call
RaisingSets ==
    {{}} \cup {{q} : q \in Strategies \cup {"availability", "user_context"}}
         \cup {Strategies, Strategies \cup {"user_context"}}

NoRequest == [user_id |-> "", room_id |-> "", start_time |-> 0, end_time |-> 0,
              capacity |-> 0, purpose |-> ""]
NoEnv == [loop |-> FALSE, raising |-> {}]
\* the instant the model stands at: 2025-08-15 08:00
Clock == At(0, 8, 0, 0)

\* the two workers that serve booking requests, and a worker without one
Workers == {"w1", "w2"}
Idle == [pc |-> "idle", room_name |-> "", date |-> 0, start_time |-> 0,
         end_time |-> 0, created_by |-> "", room_id |-> 0, status |-> ""]
NoTxns == [w \in Workers |-> Idle]

NoProbe == [room_id |-> 0, start_time |-> 0, end_time |-> 0, raises |-> FALSE,
            available |-> FALSE]

(***************************************************************************)
(* The state machine.                                                      *)
(***************************************************************************)
Init ==
    /\ rooms \in RoomTables
    /\ entries = {}
    /\ pc = "new"
    /\ ml_available = FALSE
    /\ llm_available = FALSE
    /\ mode = "none"
    /\ base_weights = [existing_system |-> 0, ml_similarity |-> 0, llm_context |-> 0]
    /\ request = NoRequest
    /\ env = NoEnv
    /\ response = <<>>
    /\ probe = NoProbe
    /\ now = Clock
    /\ swaps = {}
    /\ next_id = 1
    /\ txns = NoTxns

\* a booking is stored (by the booking subsystem); mrbs_entry.room_id is a
\* foreign key into mrbs_room
InsertEntry(e) ==
    /\ pc \in {"new", "ready"}
    /\ e \notin entries
    /\ \E r \in rooms : r.id = e.room_id
    /\ Cardinality(entries) < MaxEntries
    /\ entries' = entries \cup {e}
    /\ UNCHANGED <<rooms, pc, ml_available, llm_available, mode, base_weights,
                   request, env, response, probe, now,
                   swaps, next_id, txns>>

\* HybridRecommendationEngine.__init__: _initialize_enhanced_components, then
\* _configure_scoring.  ml_init: the embedding model is built or raises;
\* llm_init: the processor is built with a client, without one, or raises.
Construct(ml_init, llm_init) ==
    /\ pc = "new"
    /\ LET ml_ok == (ml_init = "ok")
           llm_ok == (llm_init = "ok")
       IN  /\ ml_available' = ml_ok
           /\ llm_available' = llm_ok
           /\ mode' = ConfigureMode(ml_ok, llm_ok)
           /\ base_weights' = ConfigureWeights(ml_ok, llm_ok)
    /\ pc' = "ready"
    /\ UNCHANGED <<rooms, entries, request, env, response, probe, now,
                   swaps, next_id, txns>>

\* a get_recommendations that stores a tentative booking (status 1) of the
\* requested interval for the caller
GetRecommendationsHolding(rd, loop, raising) ==
    /\ pc = "ready"
    /\ request' = rd
    /\ env' = [loop |-> loop, raising |-> raising]
    /\ response' = HybridGetRecommendations(rd, loop, raising, ml_available,
                                            llm_available, base_weights)
    /\ entries' = entries \cup {Entry(0, r.id, rd.start_time, rd.end_time, 1, rd.user_id) :
                                    r \in {x \in rooms : x.room_name = rd.room_id}}
    /\ pc' = "done"
    /\ UNCHANGED <<rooms, ml_available, llm_available, mode, base_weights, probe, now,
                   swaps, next_id, txns>>

\* one call of HybridRecommendationEngine.get_recommendations
GetRecommendations(rd, loop, raising) ==
    /\ pc = "ready"
    /\ request' = rd
    /\ env' = [loop |-> loop, raising |-> raising]
    /\ response' = HybridGetRecommendations(rd, loop, raising, ml_available,
                                            llm_available, base_weights)
    /\ pc' = "done"
    /\ UNCHANGED <<rooms, entries, ml_available, llm_available, mode, base_weights,
                   probe, now,
                   swaps, next_id, txns>>

\* one call of BaseRecommendationEngine.get_recommendations
BaseCall(rd, raising) ==
    /\ pc = "ready"
    /\ request' = rd
    /\ env' = [loop |-> FALSE, raising |-> raising]
    /\ response' = BaseGetRecommendations(rd, raising)
    /\ pc' = "base_done"
    /\ UNCHANGED <<rooms, entries, ml_available, llm_available, mode, base_weights,
                   probe, now,
                   swaps, next_id, txns>>

\* one call of _is_time_slot_available
CheckSlot(room_id, start_time, end_time, raises) ==
    /\ pc = "ready"
    /\ probe' = [room_id |-> room_id, start_time |-> start_time,
                 end_time |-> end_time, raises |-> raises,
                 available |-> IsTimeSlotAvailable(room_id, start_time, end_time, raises)]
    /\ pc' = "probed"
    /\ UNCHANGED <<rooms, entries, ml_available, llm_available, mode, base_weights,
                   request, env, response, now,
                   swaps, next_id, txns>>

\* the caller drops the result
Return ==
    /\ pc \in {"done", "base_done", "probed", "room_done", "time_done",
             "proactive_done", "smart_done"}
    /\ pc' = "ready"
    /\ request' = NoRequest
    /\ env' = NoEnv
    /\ response' = <<>>
    /\ probe' = NoProbe
    /\ UNCHANGED <<rooms, entries, ml_available, llm_available, mode, base_weights, now,
                   swaps, next_id, txns>>

Next ==
    \/ \E e \in EntryPool : InsertEntry(e)
    \/ \E ml_init \in {"ok", "raises"}, llm_init \in {"ok", "no_client", "raises"} :
          Construct(ml_init, llm_init)
    \/ \E rd \in Requests, loop \in BOOLEAN, raising \in RaisingSets :
          GetRecommendations(rd, loop, raising)
    \/ Return

Spec == Init /\ [][Next]_vars

\* the base engine called on its own
NextBase ==
    \/ \E e \in EntryPool : InsertEntry(e)
    \/ \E ml_init \in {"ok", "raises"}, llm_init \in {"ok", "no_client", "raises"} :
          Construct(ml_init, llm_init)
    \/ \E rd \in Requests, raising \in RaisingSets : BaseCall(rd, raising)
    \/ Return

SpecBase == Init /\ [][NextBase]_vars

\* the intervals the availability check is asked about
ProbeIntervals ==
    { <<At(0, 10, 0, 0), At(0, 11, 0, 0)>>, <<At(0, 11, 0, 0), At(0, 12, 0, 0)>>,
      <<At(0, 9, 0, 0), At(0, 10, 0, 0)>>,  <<At(0, 8, 0, 0), At(0, 9, 0, 0)>>,
      <<At(0, 10, 20, 0), At(0, 10, 40, 0)>>, <<At(0, 9, 59, 59), At(0, 11, 0, 1)>>,
      <<At(0, 10, 59, 59), At(0, 11, 0, 0)>>, <<At(0, 15, 0, 0), At(0, 15, 0, 1)>> }

\* the availability check called on its own
NextOracle ==
    \/ \E e \in EntryPool : InsertEntry(e)
    \/ \E ml_init \in {"ok", "raises"}, llm_init \in {"ok", "no_client", "raises"} :
          Construct(ml_init, llm_init)
    \/ \E room_id \in 1..3, iv \in ProbeIntervals, raises \in BOOLEAN :
          CheckSlot(room_id, iv[1], iv[2], raises)
    \/ Return

SpecOracle == Init /\ [][NextOracle]_vars

(***************************************************************************)
(* A building of twelve lecture theatres on a busy morning: LT1 (capacity  *)
(* 50) and LT2 .. LT12 of capacity 51 .. 61, each of which may be booked   *)
(* 10:00-11:00 on the day of the request.                                  *)
(***************************************************************************)
TheatreName(i) ==
    <<"LT1", "LT2", "LT3", "LT4", "LT5", "LT6", "LT7", "LT8", "LT9", "LT10",
      "LT11", "LT12">>[i]

ManyRooms == {Room(i, TheatreName(i), 49 + i, 1, FALSE) : i \in 1..12}

InitRooms ==
    /\ rooms = ManyRooms
    /\ entries = {}
    /\ pc = "new"
    /\ ml_available = FALSE
    /\ llm_available = FALSE
    /\ mode = "none"
    /\ base_weights = [existing_system |-> 0, ml_similarity |-> 0, llm_context |-> 0]
    /\ request = NoRequest
    /\ env = NoEnv
    /\ response = <<>>
    /\ probe = NoProbe
    /\ now = Clock
    /\ swaps = {}
    /\ next_id = 1
    /\ txns = NoTxns

\* a room is booked 10:00-11:00 (by the booking subsystem)
BookRoom(room_id) ==
    /\ pc \in {"new", "ready"}
    /\ \E r \in rooms : r.id = room_id
    /\ ~\E e \in entries : e.room_id = room_id
    /\ Cardinality(entries) < MaxBooked
    /\ entries' = entries \cup {Entry(100 + room_id, room_id, At(0, 10, 0, 0),
                                      At(0, 11, 0, 0), 0, "u2")}
    /\ UNCHANGED <<rooms, pc, ml_available, llm_available, mode, base_weights,
                   request, env, response, probe, now,
                   swaps, next_id, txns>>

\* one call of _get_alternative_room_recommendations
AlternativeRoomCall(rd) ==
    /\ pc = "ready"
    /\ request' = rd
    /\ env' = NoEnv
    /\ response' = GetAlternativeRoomRecommendations(rd)
    /\ pc' = "room_done"
    /\ UNCHANGED <<rooms, entries, ml_available, llm_available, mode, base_weights,
                   probe, now,
                   swaps, next_id, txns>>

\* the alternative-room strategy called on its own in the large building
NextRooms ==
    \/ \E room_id \in 2..12 : BookRoom(room_id)
    \/ \E ml_init \in {"ok", "raises"}, llm_init \in {"ok", "no_client", "raises"} :
          Construct(ml_init, llm_init)
    \/ \E rd \in Requests : AlternativeRoomCall(rd)
    \/ Return

SpecRooms == InitRooms /\ [][NextRooms]_vars

(***************************************************************************)
(* The two history strategies called on their own in the building of       *)
(* twelve theatres.  The request is for Friday 2025-08-15 10:00; the store *)
(* may hold bookings of earlier Fridays and Thursdays, of other days, of   *)
(* the days after the request and of more than 90 days ago.                *)
(***************************************************************************)
HistoryPool ==
    { Entry(201, 1, At(-7, 10, 0, 0),   At(-7, 11, 0, 0),   0, "u1"),
      Entry(202, 2, At(-8, 10, 0, 0),   At(-8, 11, 0, 0),   0, "u1"),
      Entry(203, 2, At(-14, 10, 0, 0),  At(-14, 11, 0, 0),  0, "u1"),
      Entry(204, 3, At(-10, 10, 0, 0),  At(-10, 11, 0, 0),  0, "u1"),
      Entry(205, 4, At(-10, 10, 0, 0),  At(-10, 11, 0, 0),  0, "u1"),
      Entry(206, 5, At(-10, 10, 0, 0),  At(-10, 11, 0, 0),  0, "u1"),
      Entry(207, 6, At(-10, 10, 0, 0),  At(-10, 11, 0, 0),  0, "u1"),
      Entry(208, 7, At(2, 10, 0, 0),    At(2, 11, 0, 0),    0, "u1"),
      Entry(209, 8, At(-100, 10, 0, 0), At(-100, 11, 0, 0), 0, "u1"),
      Entry(210, 3, At(0, 10, 0, 0),    At(0, 11, 0, 0),    0, "u2"),
      Entry(211, 9, At(-5, 10, 0, 0),   At(-5, 11, 0, 0),   0, "u2") }

HistoryRequests ==
    { [user_id |-> user, room_id |-> "LT1", start_time |-> At(0, 10, 0, 0),
       end_time |-> At(0, 10, 30, 0), capacity |-> 1, purpose |-> "lecture"] :
        user \in {"u1", "u2"} }

\* a booking of the pool is stored (by the booking subsystem)
RecordBooking(e) ==
    /\ pc \in {"new", "ready"}
    /\ e \notin entries
    /\ \E r \in rooms : r.id = e.room_id
    /\ entries' = entries \cup {e}
    /\ UNCHANGED <<rooms, pc, ml_available, llm_available, mode, base_weights,
                   request, env, response, probe, now,
                   swaps, next_id, txns>>

\* one call of _get_proactive_recommendations
ProactiveCall(rd) ==
    /\ pc = "ready"
    /\ request' = rd
    /\ env' = NoEnv
    /\ response' = GetProactiveRecommendations(rd)
    /\ pc' = "proactive_done"
    /\ UNCHANGED <<rooms, entries, ml_available, llm_available, mode, base_weights,
                   probe, now,
                   swaps, next_id, txns>>

\* one call of _get_smart_scheduling_recommendations
SmartSchedulingCall(rd) ==
    /\ pc = "ready"
    /\ request' = rd
    /\ env' = NoEnv
    /\ response' = GetSmartSchedulingRecommendations(rd)
    /\ pc' = "smart_done"
    /\ UNCHANGED <<rooms, entries, ml_available, llm_available, mode, base_weights,
                   probe, now,
                   swaps, next_id, txns>>

NextHistory ==
    \/ \E e \in HistoryPool : RecordBooking(e)
    \/ \E ml_init \in {"ok", "raises"}, llm_init \in {"ok", "no_client", "raises"} :
          Construct(ml_init, llm_init)
    \/ \E rd \in HistoryRequests : ProactiveCall(rd)
    \/ \E rd \in HistoryRequests : SmartSchedulingCall(rd)
    \/ Return

\* the building of twelve theatres, or the three rooms LT1, LT2 and Meeting
\* Room A
InitHistory ==
    /\ rooms \in {ManyRooms,
                  {Room(1, "LT1", 50, 1, FALSE), Room(2, "LT2", 50, 1, FALSE),
                   Room(3, "Meeting Room A", 10, 2, FALSE)}}
    /\ entries = {}
    /\ pc = "new"
    /\ ml_available = FALSE
    /\ llm_available = FALSE
    /\ mode = "none"
    /\ base_weights = [existing_system |-> 0, ml_similarity |-> 0, llm_context |-> 0]
    /\ request = NoRequest
    /\ env = NoEnv
    /\ response = <<>>
    /\ probe = NoProbe
    /\ now = Clock
    /\ swaps = {}
    /\ next_id = 1
    /\ txns = NoTxns

SpecHistory == InitHistory /\ [][NextHistory]_vars

(***************************************************************************)
(* The alternative-time strategy called on its own, also for a disabled    *)
(* room (LT2 in the second room table) and for a room that does not exist. *)
(***************************************************************************)
TimeRequests ==
    { [user_id |-> "u1", room_id |-> room, start_time |-> At(0, 10, 0, 0),
       end_time |-> At(0, 10, 0, 0) + duration, capacity |-> 1,
       purpose |-> "lecture"] :
        room \in {"LT1", "LT2", "Annex"},
        duration \in {30 * Minute, 4 * Hour} }

\* one call of _get_alternative_time_recommendations
AlternativeTimeCall(rd, raising) ==
    /\ pc = "ready"
    /\ request' = rd
    /\ env' = [loop |-> FALSE, raising |-> raising]
    /\ response' = GetAlternativeTimeRecommendations(rd, raising)
    /\ pc' = "time_done"
    /\ UNCHANGED <<rooms, entries, ml_available, llm_available, mode, base_weights,
                   probe, now,
                   swaps, next_id, txns>>

NextTime ==
    \/ \E e \in EntryPool : InsertEntry(e)
    \/ \E ml_init \in {"ok", "raises"}, llm_init \in {"ok", "no_client", "raises"} :
          Construct(ml_init, llm_init)
    \/ \E rd \in TimeRequests, raising \in {{}, {"availability"}} :
          AlternativeTimeCall(rd, raising)
    \/ Return

SpecTime == Init /\ [][NextTime]_vars

(***************************************************************************)
(* Requests whose start_time or end_time is no date, at two clock readings.*)
(***************************************************************************)
ClockReadings == {At(0, 10, 5, 0), At(0, 13, 0, 0)}

MalformedRequests ==
    { [user_id |-> "u1", room_id |-> room, start_time |-> start,
       end_time |-> end, capacity |-> 1, purpose |-> "lecture"] :
        room \in {"LT1", "Annex"},
        start \in {NotATime, At(0, 10, 0, 0)},
        end \in {NotATime, At(0, 10, 30, 0)} }

InitParse ==
    /\ rooms \in RoomTables
    /\ entries = {}
    /\ pc = "new"
    /\ ml_available = FALSE
    /\ llm_available = FALSE
    /\ mode = "none"
    /\ base_weights = [existing_system |-> 0, ml_similarity |-> 0, llm_context |-> 0]
    /\ request = NoRequest
    /\ env = NoEnv
    /\ response = <<>>
    /\ probe = NoProbe
    /\ now \in ClockReadings
    /\ swaps = {}
    /\ next_id = 1
    /\ txns = NoTxns

\* the hybrid engine called with requests whose times may be no dates
NextParse ==
    \/ \E e \in EntryPool : InsertEntry(e)
    \/ \E ml_init \in {"ok", "raises"}, llm_init \in {"ok", "no_client", "raises"} :
          Construct(ml_init, llm_init)
    \/ \E rd \in MalformedRequests, loop \in BOOLEAN, raising \in RaisingSets :
          GetRecommendations(rd, loop, raising)
    \/ Return

SpecParse == InitParse /\ [][NextParse]_vars

(***************************************************************************)
(* BookingService (core/booking_service.py) and the swap routes            *)
(* (api/routes/swap_routes.py).                                            *)
(*                                                                         *)
(* A date string is its day number relative to 2025-08-15 and a time       *)
(* string "HH:MM" its minute of the day; None is NotATime for a date or a  *)
(* time, "" for a room name and 0 for a booking id.  A query's .first() is *)
(* the row of lowest primary key.  A commit that raises is rolled back and *)
(* leaves the store as it was; the model has no step for it.               *)
(***************************************************************************)
MaxBookings == 3
MaxSwaps == 1

\* datetime.strptime(f"{date} {time}", "%Y-%m-%d %H:%M"), then time.mktime
Timestamp(date, hm) == At(date, 0, hm, 0)

\* validate_future_datetime passes: the time lies after now
IsFutureDatetime(date, hm) == Timestamp(date, hm) > now

\* db.query(MRBSRoom).filter(MRBSRoom.room_name == name).first()
RoomNamed(name) ==
    LET found == {r \in rooms : r.room_name = name}
    IN  IF found = {} THEN <<>> ELSE <<CHOOSE r \in found : TRUE>>

\* query.first()
First(S) == IF S = {} THEN <<>> ELSE <<CHOOSE x \in S : \A y \in S : x.id <= y.id>>

\* the conflict query of add_booking and update_booking (any status)
Overlapping(room_id, start_ts, end_ts) ==
    {e \in entries : /\ e.room_id = room_id
                     /\ e.start_time < end_ts
                     /\ e.end_time > start_ts}

\* the booking of a room with exactly these times
BookingAt(room_id, start_ts, end_ts) ==
    First({e \in entries : /\ e.room_id = room_id
                           /\ e.start_time = start_ts
                           /\ e.end_time = end_ts})

\* db.query(MRBSEntry).filter(MRBSEntry.id == booking_id).first()
BookingById(booking_id) == First({e \in entries : e.id = booking_id})

\* add_booking up to its conflict query: what the call answers
AddBookingStatus(room_name, date, start_time, end_time) ==
    LET room == RoomNamed(room_name)
        start_ts == Timestamp(date, start_time)
        end_ts == Timestamp(date, end_time)
    IN  IF ~IsFutureDatetime(date, start_time) THEN "400 past datetime"
        ELSE IF room = <<>> THEN "404 room not found"
        ELSE IF end_ts <= start_ts THEN "400 end before start"
        ELSE IF Overlapping(room[1].id, start_ts, end_ts) # {} THEN "unavailable"
        ELSE "created"

\* the row add_booking inserts
NewBooking(room_id, date, start_time, end_time, created_by) ==
    Entry(next_id, room_id, Timestamp(date, start_time), Timestamp(date, end_time),
          0, created_by)

\* one call of BookingService.add_booking that stores the booking (every
\* other call returns or raises before it touches the store)
AddBooking(room_name, date, start_time, end_time, created_by) ==
    /\ next_id <= MaxBookings
    /\ AddBookingStatus(room_name, date, start_time, end_time) = "created"
    /\ entries' = entries \cup {NewBooking(RoomNamed(room_name)[1].id, date,
                                           start_time, end_time, created_by)}
    /\ next_id' = next_id + 1
    /\ UNCHANGED <<rooms, pc, ml_available, llm_available, mode, base_weights,
                   request, env, response, probe, now, swaps, txns>>

\* x or y of update_booking, for a date or a time
OrElse(x, y) == IF x = NotATime THEN y ELSE x

\* update_booking: the rows of mrbs_entry after the call
UpdateBookingEntries(original_room_name, original_date, original_start_time, original_end_time, new_room_name, new_date, new_start_time, new_end_time, modified_by) ==
    LET room == RoomNamed(original_room_name)
        start_ts == Timestamp(original_date, original_start_time)
        end_ts == Timestamp(original_date, original_end_time)
        moved == new_room_name # "" /\ new_room_name # original_room_name
        new_room == RoomNamed(new_room_name)
        final_date == OrElse(new_date, original_date)
        final_start_ts == Timestamp(final_date, OrElse(new_start_time, original_start_time))
        final_end_ts == Timestamp(final_date, OrElse(new_end_time, original_end_time))
        assigned(booking, final_room_id) ==
            IF /\ (\/ final_room_id # room[1].id
                   \/ final_start_ts # start_ts
                   \/ final_end_ts # end_ts)
               /\ Overlapping(final_room_id, final_start_ts, final_end_ts) \ {booking} # {}
            THEN entries
            ELSE (entries \ {booking})
                 \cup {[booking EXCEPT !.room_id = final_room_id,
                                       !.start_time = final_start_ts,
                                       !.end_time = final_end_ts]}
        found(booking) ==
            IF booking = <<>> THEN entries
            ELSE IF booking[1].create_by # modified_by THEN entries
            ELSE IF moved /\ new_room = <<>> THEN entries
            ELSE IF final_end_ts <= final_start_ts THEN entries
            ELSE assigned(booking[1], IF moved THEN new_room[1].id ELSE room[1].id)
    IN  IF room = <<>> THEN entries
        ELSE found(BookingAt(room[1].id, start_ts, end_ts))

\* one call of BookingService.update_booking
UpdateBooking(original_room_name, original_date, original_start_time, original_end_time, new_room_name, new_date, new_start_time, new_end_time, modified_by) ==
    /\ entries # {}
    /\ entries' = UpdateBookingEntries(original_room_name, original_date,
                                       original_start_time, original_end_time,
                                       new_room_name, new_date, new_start_time,
                                       new_end_time, modified_by)
    /\ UNCHANGED <<rooms, pc, ml_available, llm_available, mode, base_weights,
                   request, env, response, probe, now, swaps, next_id, txns>>

\* the foreign keys of swap_requests when a booking is deleted:
\* requested_booking_id ON DELETE CASCADE, offered_booking_id ON DELETE SET NULL
AfterDelete(booking_id) ==
    {[sw EXCEPT !.offered_booking_id = IF @ = booking_id THEN 0 ELSE @] :
        sw \in {x \in swaps : x.requested_booking_id # booking_id}}

\* one call of BookingService.cancel_booking that finds the caller's booking
CancelBooking(room_name, date, start_time, end_time, user_email) ==
    /\ RoomNamed(room_name) # <<>>
    /\ LET booking == BookingAt(RoomNamed(room_name)[1].id,
                                Timestamp(date, start_time), Timestamp(date, end_time))
       IN  /\ booking # <<>>
           /\ booking[1].create_by = user_email
           /\ entries' = entries \ {booking[1]}
           /\ swaps' = AfterDelete(booking[1].id)
    /\ UNCHANGED <<rooms, pc, ml_available, llm_available, mode, base_weights,
                   request, env, response, probe, now, next_id, txns>>

\* one call of BookingService.delete_booking for a stored booking
DeleteBooking(booking_id) ==
    /\ BookingById(booking_id) # <<>>
    /\ entries' = entries \ {BookingById(booking_id)[1]}
    /\ swaps' = AfterDelete(booking_id)
    /\ UNCHANGED <<rooms, pc, ml_available, llm_available, mode, base_weights,
                   request, env, response, probe, now, next_id, txns>>

Users == {"u1", "u2"}

\* create_swap: the swap row is stored; offered_user is the user the join of
\* users, modules and bookings finds for the offered booking.  The id of a
\* deleted swap is used again.
CreateSwap(user_email, requested_booking_id, offered_booking_id, offered_user) ==
    /\ Cardinality(swaps) < MaxSwaps
    /\ BookingById(requested_booking_id) # <<>>
    /\ BookingById(offered_booking_id) # <<>>
    /\ swaps' = swaps \cup
          {[id |-> CHOOSE i \in 1..MaxSwaps : \A sw \in swaps : sw.id # i,
            requested_by |-> user_email,
            requested_booking_id |-> requested_booking_id,
            offered_booking_id |-> offered_booking_id,
            offered_by |-> offered_user,
            status |-> "pending"]}
    /\ UNCHANGED <<rooms, entries, pc, ml_available, llm_available, mode,
                   base_weights, request, env, response, probe, now, next_id, txns>>

\* respond_swap with response "approved" or "rejected" by a user of the swap
\* whose two bookings exist
RespondSwap(swap_id, answer, user_email) ==
    /\ \E sw \in swaps :
          /\ sw.id = swap_id
          /\ user_email \in {sw.requested_by, sw.offered_by}
          /\ BookingById(sw.requested_booking_id) # <<>>
          /\ BookingById(sw.offered_booking_id) # <<>>
          /\ LET requested_booking == BookingById(sw.requested_booking_id)[1]
                 offered_booking == BookingById(sw.offered_booking_id)[1]
             IN  entries' =
                    IF answer = "approved"
                    THEN (entries \ {requested_booking, offered_booking})
                         \cup {[requested_booking EXCEPT
                                   !.start_time = offered_booking.start_time,
                                   !.end_time = offered_booking.end_time],
                               [offered_booking EXCEPT
                                   !.start_time = requested_booking.start_time,
                                   !.end_time = requested_booking.end_time]}
                    ELSE entries
          /\ swaps' = (swaps \ {sw}) \cup {[sw EXCEPT !.status = answer]}
    /\ UNCHANGED <<rooms, pc, ml_available, llm_available, mode, base_weights,
                   request, env, response, probe, now, next_id, txns>>

\* the dates and the times of day of the booking requests: yesterday and
\* tomorrow, 10:00, 11:00 and 12:00
BookingDates == {-1, 1}
StartTimes == {600, 660}
EndTimes == {660, 720}

InitBooking ==
    /\ rooms = {Room(1, "LT1", 50, 1, FALSE), Room(2, "LT2", 50, 1, FALSE)}
    /\ entries = {}
    /\ pc = "new"
    /\ ml_available = FALSE
    /\ llm_available = FALSE
    /\ mode = "none"
    /\ base_weights = [existing_system |-> 0, ml_similarity |-> 0, llm_context |-> 0]
    /\ request = NoRequest
    /\ env = NoEnv
    /\ response = <<>>
    /\ probe = NoProbe
    /\ now = Clock
    /\ swaps = {}
    /\ next_id = 1
    /\ txns = NoTxns

\* the calls of the booking service and of the swap route, one after another
NextBooking ==
    \/ \E room_name \in {"LT1", "LT2", "Annex"}, date \in BookingDates,
          start_time \in StartTimes, end_time \in EndTimes, created_by \in {"u1"} :
          AddBooking(room_name, date, start_time, end_time, created_by)
    \/ \E original_room_name \in {"LT1", "LT2"}, original_start_time \in StartTimes,
          original_end_time \in EndTimes, new_room_name \in {"", "LT1", "LT2"},
          new_start_time \in {NotATime} \cup StartTimes,
          new_end_time \in {NotATime} \cup EndTimes, modified_by \in Users :
          UpdateBooking(original_room_name, 1, original_start_time,
                        original_end_time, new_room_name, NotATime,
                        new_start_time, new_end_time, modified_by)
    \/ \E room_name \in {"LT1", "LT2"}, start_time \in StartTimes,
          end_time \in EndTimes, user_email \in Users :
          CancelBooking(room_name, 1, start_time, end_time, user_email)
    \/ \E booking_id \in 1..MaxBookings : DeleteBooking(booking_id)
    \/ \E user_email \in {"u1"}, requested_booking_id \in 1..MaxBookings,
          offered_booking_id \in 1..MaxBookings, offered_user \in Users :
          CreateSwap(user_email, requested_booking_id, offered_booking_id, offered_user)
    \/ \E swap_id \in 1..MaxSwaps, answer \in {"approved", "rejected"},
          user_email \in Users :
          RespondSwap(swap_id, answer, user_email)

SpecBooking == InitBooking /\ [][NextBooking]_vars

(***************************************************************************)
(* Two requests of add_booking served at the same time.  Every request has *)
(* its own session (get_db, SessionLocal with autoflush = False) on its    *)
(* own pooled connection, so a row a session has added is in the table     *)
(* only after its commit; mrbs_entry has no constraint on overlapping rows *)
(* and the conflict query takes no lock.  A worker's steps are the         *)
(* statements of add_booking that reach the database.                      *)
(***************************************************************************)

\* the number of requests the workers are serving
InFlight == Cardinality({w \in Workers : txns[w].pc \notin {"idle", "done"}})

\* add_booking, lines 78-115: the validation, the room lookup and the conflict
\* query of a request a worker takes up; the request ends here unless the
\* room is free
ConflictQuery(w, room_name, date, start_time, end_time, created_by) ==
    /\ txns[w].pc = "idle"
    /\ next_id + InFlight <= MaxBookings
    /\ LET status == AddBookingStatus(room_name, date, start_time, end_time)
       IN  txns' = [txns EXCEPT ![w] =
                       [pc |-> IF status = "created" THEN "checked" ELSE "done",
                        room_name |-> room_name,
                        date |-> date,
                        start_time |-> start_time,
                        end_time |-> end_time,
                        created_by |-> created_by,
                        room_id |-> IF RoomNamed(room_name) = <<>> THEN 0
                                    ELSE RoomNamed(room_name)[1].id,
                        status |-> IF status = "created" THEN "" ELSE status]]
    /\ UNCHANGED <<rooms, entries, pc, ml_available, llm_available, mode,
                   base_weights, request, env, response, probe, now, swaps, next_id>>

\* add_booking, lines 117-146: the row is built and added to the session,
\* which does not flush it
SessionAdd(w) ==
    /\ txns[w].pc = "checked"
    /\ txns' = [txns EXCEPT ![w].pc = "added"]
    /\ UNCHANGED <<rooms, entries, pc, ml_available, llm_available, mode,
                   base_weights, request, env, response, probe, now, swaps, next_id>>

\* add_booking, lines 150-151: the commit inserts the row under the next id
Commit(w) ==
    /\ txns[w].pc = "added"
    /\ entries' = entries \cup {NewBooking(txns[w].room_id, txns[w].date,
                                           txns[w].start_time, txns[w].end_time,
                                           txns[w].created_by)}
    /\ next_id' = next_id + 1
    /\ txns' = [txns EXCEPT ![w].pc = "done", ![w].status = "created"]
    /\ UNCHANGED <<rooms, pc, ml_available, llm_available, mode, base_weights,
                   request, env, response, probe, now, swaps>>

\* the answer is sent and the worker is free for the next request
Reply(w) ==
    /\ txns[w].pc = "done"
    /\ txns' = [txns EXCEPT ![w] = Idle]
    /\ UNCHANGED <<rooms, entries, pc, ml_available, llm_available, mode,
                   base_weights, request, env, response, probe, now, swaps, next_id>>

\* the workers' steps in any order
NextConcurrent ==
    \/ \E w \in Workers, room_name \in {"LT1", "LT2", "Annex"}, date \in BookingDates,
          start_time \in StartTimes, end_time \in EndTimes, created_by \in {"u1"} :
          ConflictQuery(w, room_name, date, start_time, end_time, created_by)
    \/ \E w \in Workers : SessionAdd(w)
    \/ \E w \in Workers : Commit(w)
    \/ \E w \in Workers : Reply(w)

SpecConcurrent == InitBooking /\ [][NextConcurrent]_vars

(***************************************************************************)
(* _validate_and_fix_durations on its own.  The call rewrites the dicts of *)
(* the list it is given, so the list is the response before the call and   *)
(* after it.                                                               *)
(***************************************************************************)
MaxRecs == 2

\* candidates as the generators build them (with and without final_score,
\* with an end_time that is 60 minutes after the start), and candidates the
\* normalizer has to cope with: a start_time that is no date, a suggestion
\* without start_time, no suggestion, a suggestion of None
NormalizerPool ==
    { [type |-> "alternative_time", score |-> P(850), final_score |-> P(800),
       suggestion |-> [room_name |-> "LT1", start_time |-> At(0, 11, 0, 0),
                       end_time |-> At(0, 12, 0, 0), duration_minutes |-> 60]],
      [type |-> "alternative_room", score |-> P(700),
       suggestion |-> [room_name |-> "LT2", start_time |-> At(0, 10, 0, 0),
                       end_time |-> At(0, 11, 0, 0), duration_minutes |-> 60]],
      [type |-> "proactive", score |-> P(600), final_score |-> P(600),
       suggestion |-> [room_name |-> "LT3", start_time |-> NotATime,
                       end_time |-> NotATime]],
      [type |-> "smart_scheduling", score |-> P(650),
       suggestion |-> [room_name |-> "LT4"]],
      [type |-> "fallback", score |-> P(500)],
      [type |-> "alternative_room", score |-> P(900), final_score |-> P(900),
       suggestion |-> NoneDict] }

\* the lists of up to MaxRecs candidates
NormalizerLists ==
    UNION { [1..n -> NormalizerPool] : n \in 0..MaxRecs }

\* expected_duration_minutes
ExpectedDurations == {0, 30, 240}

InitNormalizer ==
    /\ rooms = {}
    /\ entries = {}
    /\ pc = "ready"
    /\ ml_available = FALSE
    /\ llm_available = FALSE
    /\ mode = "none"
    /\ base_weights = [existing_system |-> 0, ml_similarity |-> 0, llm_context |-> 0]
    /\ request = NoRequest
    /\ env = NoEnv
    /\ response \in NormalizerLists
    /\ probe = NoProbe
    /\ now \in ClockReadings
    /\ swaps = {}
    /\ next_id = 1
    /\ txns = NoTxns

\* one call of _validate_and_fix_durations on the list
NormalizeCall(expected_duration_minutes) ==
    /\ pc = "ready"
    /\ response' = ValidateAndFixDurations(response, expected_duration_minutes)
    /\ pc' = "normalized"
    /\ UNCHANGED <<rooms, entries, ml_available, llm_available, mode, base_weights,
                   request, env, probe, now, swaps, next_id, txns>>

NextNormalizer ==
    \E expected_duration_minutes \in ExpectedDurations :
        NormalizeCall(expected_duration_minutes)

SpecNormalizer == InitNormalizer /\ [][NextNormalizer]_vars

(***************************************************************************)
(* Properties.                                                             *)
(***************************************************************************)
Returned == pc = "done"

\* the synthetic candidate of _create_fallback_recommendations
IsFallback(rec) == rec.reason[1] = "Room available 1 hour earlier"

\* C1: every candidate returned by get_recommendations lasts exactly as long
\* as the request: suggestion.end_time - suggestion.start_time equals
\* end_time - start_time of the request.
C1_DurationInvariance ==
    Returned =>
        \A i \in 1..Len(response) :
            response[i].suggestion.end_time - response[i].suggestion.start_time
                = request.end_time - request.start_time

\* C2: with at least one room in the store, get_recommendations never returns
\* an empty list.
C2_NonEmpty ==
    (Returned /\ rooms # {}) => Len(response) >= 1

\* C2 witness: rooms exist, all four strategies raise, one candidate comes back
C2_Witness ==
    /\ Returned
    /\ rooms # {}
    /\ Strategies \subseteq env.raising
    /\ Len(response) = 1

\* C3: the type priorities of the returned list are non-decreasing.
C3_PriorityOrdering ==
    Returned =>
        \A i \in 1..(Len(response) - 1) :
            Priority(response[i].type) <= Priority(response[i + 1].type)

\* C4: the returned list never has more than 8 candidates.
C4_AtMostEight ==
    Returned => Len(response) <= 8

Produced(strategy) ==
    CASE strategy = "alternative_time" ->
             GetAlternativeTimeRecommendations(request, env.raising)
      [] strategy = "alternative_room" -> GetAlternativeRoomRecommendations(request)
      [] strategy = "proactive" -> GetProactiveRecommendations(request)
      [] strategy = "smart_scheduling" -> GetSmartSchedulingRecommendations(request)

RECURSIVE ProducedCount(_)
ProducedCount(S) ==
    IF S = {} THEN 0
    ELSE LET s == CHOOSE x \in S : TRUE
         IN  Len(Produced(s)) + ProducedCount(S \ {s})

\* C6: in BaseRecommendationEngine.get_recommendations a raising strategy
\* contributes nothing, and every candidate of the strategies that did not
\* raise is in the result.
C6_StrategyIsolation ==
    pc = "base_done" =>
        LET ok == Strategies \ env.raising
        IN  /\ \A s \in ok : \A i \in 1..Len(Produced(s)) :
                  \E j \in 1..Len(response) : response[j] = Produced(s)[i]
            /\ ProducedCount(ok) > 0 => Len(response) = ProducedCount(ok)

\* C6 witness: exactly one strategy raised, it would have produced candidates,
\* and the others produced some
C6_Witness ==
    /\ pc = "base_done"
    /\ \E s \in Strategies :
          /\ env.raising = {s}
          /\ Len(Produced(s)) > 0
          /\ ProducedCount(Strategies \ {s}) > 0

\* C7: when no strategy yields a candidate, exactly one candidate is returned;
\* its suggestion carries the requested room and the requested start time and
\* its score lies in [0.7, 0.75].
C7_TotalFailureFallback ==
    (Returned /\ StrategyRecommendations(request, env.raising) = <<>>) =>
        /\ Len(response) = 1
        /\ response[1].suggestion.room_id = request.room_id
        /\ response[1].suggestion.start_time = request.start_time
        /\ P(700) <= response[1].score
        /\ response[1].score <= P(750)

\* C7 witness: rooms exist, no strategy raised, none found a candidate
C7_Witness ==
    /\ Returned
    /\ rooms # {}
    /\ env.raising \cap Strategies = {}
    /\ StrategyRecommendations(request, env.raising) = <<>>
    /\ Len(response) = 1

\* C8: the availability check reports a conflict exactly when a stored booking
\* of the room with status 0 shares a point with the queried interval
\* [start, end): max of the starts < min of the ends.
C8_OverlapCorrectness ==
    (pc = "probed" /\ ~probe.raises) =>
        (probe.available <=>
            ~\E e \in entries :
                /\ e.room_id = probe.room_id
                /\ e.status = 0
                /\ Max(e.start_time, probe.start_time) < Min(e.end_time, probe.end_time))

\* C8 witness: a booking of the room ends exactly where the queried interval
\* starts, and the slot is reported available
C8_Witness ==
    /\ pc = "probed"
    /\ ~probe.raises
    /\ probe.available
    /\ \E e \in entries :
          /\ e.room_id = probe.room_id
          /\ e.status = 0
          /\ e.end_time = probe.start_time

\* C9: every returned candidate other than the synthetic fallback names a room
\* that has no stored booking with status 0 overlapping the returned interval
\* [suggestion.start_time, suggestion.end_time).
C9_ConflictFree ==
    Returned =>
        \A i \in 1..Len(response) :
            ~IsFallback(response[i]) =>
                \E r \in rooms :
                    /\ r.room_name = response[i].suggestion.room_name
                    /\ ~\E e \in entries :
                          /\ e.room_id = r.id
                          /\ e.status = 0
                          /\ e.start_time < response[i].suggestion.end_time
                          /\ response[i].suggestion.start_time < e.end_time

\* C9 witness: a room strategy returned a room that has a booking elsewhere
\* on the requested day, while another room was left out for its conflict
C9_Witness ==
    /\ Returned
    /\ \E i \in 1..Len(response), e \in entries, r \in rooms :
          /\ response[i].type = "alternative_room"
          /\ r.room_name = response[i].suggestion.room_name
          /\ e.room_id = r.id
          /\ e.status = 0
          /\ DateOf(e.start_time) = DateOf(request.start_time)
    /\ \E r \in rooms :
          /\ ~r.disabled
          /\ r.room_name # request.room_id
          /\ Conflicts(r.id, request.start_time, request.end_time) > 0

\* the float 1.0
One == <<Limb, 0>>

\* the table of modes and weights of the four availability combinations
ModeTable ==
    /\ (ml_available /\ llm_available) =>
          /\ mode = "full_hybrid"
          /\ base_weights = [existing_system |-> 850, ml_similarity |-> 75,
                             llm_context |-> 75]
    /\ (ml_available /\ ~llm_available) =>
          /\ mode = "ml_enhanced"
          /\ base_weights = [existing_system |-> 900, ml_similarity |-> 100,
                             llm_context |-> 0]
    /\ (~ml_available /\ llm_available) =>
          /\ mode = "llm_enhanced"
          /\ base_weights = [existing_system |-> 900, ml_similarity |-> 0,
                             llm_context |-> 100]
    /\ (~ml_available /\ ~llm_available) =>
          /\ mode = "standard"
          /\ base_weights = [existing_system |-> 1000, ml_similarity |-> 0,
                             llm_context |-> 0]

\* C10: after initialisation the availability of ML and LLM selects the mode
\* and the weights of the table, and in each of the four combinations
\* base_weight + ml_weight + llm_weight equals exactly 1.
C10_ModeAndWeights ==
    pc # "new" => (ModeTable /\ WeightSum(base_weights) = One)

\* a score of the code, x/3000, lies in [0, 1]
InUnitInterval(x) == 0 <= x /\ x <= P(1000)

\* a final_score, x/3000000, lies in [0, 1]
FinalInUnitInterval(x) == 0 <= x /\ x <= 1000 * P(1000)

\* C11: every returned candidate carries final_score =
\* base_weight * score + ml_weight * ml_score + llm_weight * llm_score for the
\* weights of the engine's mode; in mode standard final_score equals score.
C11_FusionFormula ==
    Returned =>
        \A i \in 1..Len(response) :
            /\ Has(response[i], "final_score")
            /\ Has(response[i], "ml_score")
            /\ Has(response[i], "llm_score")
            /\ response[i].final_score =
                    base_weights.existing_system * response[i].score
                  + base_weights.ml_similarity * response[i].ml_score
                  + base_weights.llm_context * response[i].llm_score
            /\ (mode = "standard" => response[i].final_score = 1000 * response[i].score)

\* C12: when the LLM component is unavailable every returned candidate has
\* llm_score equal to the neutral value 0.6.
C12_LlmNeutral ==
    (Returned /\ ~llm_available) =>
        \A i \in 1..Len(response) :
            /\ Has(response[i], "llm_score")
            /\ response[i].llm_score = P(600)

\* C13: when the ML component failed at initialisation the mode is
\* llm_enhanced if the LLM is available and standard if it is not, and every
\* returned candidate has ml_score equal to 0.5.
C13_MlDegradation ==
    (pc # "new" /\ ~ml_available) =>
        /\ mode = (IF llm_available THEN "llm_enhanced" ELSE "standard")
        /\ Returned =>
              \A i \in 1..Len(response) :
                  /\ Has(response[i], "ml_score")
                  /\ response[i].ml_score = P(500)

\* C14: score, final_score, ml_score and llm_score of every returned
\* candidate lie in [0, 1].
C14_ScoreBounds ==
    Returned =>
        \A i \in 1..Len(response) :
            /\ Has(response[i], "score") /\ InUnitInterval(response[i].score)
            /\ Has(response[i], "final_score")
            /\ FinalInUnitInterval(response[i].final_score)
            /\ Has(response[i], "ml_score") /\ InUnitInterval(response[i].ml_score)
            /\ Has(response[i], "llm_score") /\ InUnitInterval(response[i].llm_score)

\* the room a candidate proposes
RoomNameOf(rec) ==
    Get(rec.suggestion, "room_name", Get(rec.suggestion, "room_id", ""))

\* the index of the first candidate of a list that proposes the room
FirstOfRoom(recommendations, name) ==
    CHOOSE k \in 1..Len(recommendations) :
        /\ RoomNameOf(recommendations[k]) = name
        /\ \A j \in 1..(k - 1) : RoomNameOf(recommendations[j]) # name

\* C15: the returned list holds at most one candidate per room name, and the
\* candidate kept for a room is the first one of that room in the merged
\* output of the strategies.
C15_Deduplication ==
    Returned =>
        /\ \A i, j \in 1..Len(response) :
              i # j => RoomNameOf(response[i]) # RoomNameOf(response[j])
        /\ \A i \in 1..Len(response) :
              LET merged == BaseGetRecommendations(request, env.raising)
                  first == merged[FirstOfRoom(merged, RoomNameOf(response[i]))]
              IN  /\ first.type = response[i].type
                  /\ first.suggestion.start_time = response[i].suggestion.start_time

\* C16: two adjacent returned candidates of the same type priority are in
\* descending order of final_score.
C16_SecondaryOrder ==
    Returned =>
        \A i \in 1..(Len(response) - 1) :
            Priority(response[i].type) = Priority(response[i + 1].type) =>
                /\ Has(response[i], "final_score")
                /\ Has(response[i + 1], "final_score")
                /\ response[i].final_score >= response[i + 1].final_score

\* C17: a call of get_recommendations leaves the stored bookings and rooms
\* exactly as they were before the call.
C17_ReadOnly ==
    [][(pc = "ready" /\ pc' = "done") => (entries' = entries /\ rooms' = rooms)]_vars

\* C17 witness: a call for a stored room has returned several candidates
\* while bookings are in the store
C17_Witness ==
    /\ Returned
    /\ entries # {}
    /\ Len(response) > 1
    /\ \E r \in rooms : r.room_name = request.room_id

\* the fields of a candidate and of its suggestion in the response
CandidateFields == {"type", "score", "final_score", "reason", "suggestion", "data_source"}
SuggestionFields == {"room_name", "start_time", "end_time", "duration_minutes", "confidence"}

\* C18: every returned candidate has the fields type, score, final_score,
\* reason, data_source and a suggestion with room_name, start_time, end_time,
\* duration_minutes and confidence.
C18_ResponseShape ==
    Returned =>
        \A i \in 1..Len(response) :
            /\ CandidateFields \subseteq DOMAIN response[i]
            /\ SuggestionFields \subseteq DOMAIN response[i].suggestion

\* the rooms the alternative-room strategy may propose for the request:
\* active, not the requested one, large enough, free in the requested interval
QualifyingRooms ==
    {r \in rooms : /\ ~r.disabled
                   /\ r.room_name # request.room_id
                   /\ r.capacity >= request.capacity
                   /\ ~\E e \in entries : /\ e.room_id = r.id
                                          /\ e.status = 0
                                          /\ e.start_time < request.end_time
                                          /\ request.start_time < e.end_time}

\* absolute capacity difference of a room to the requested room, if that exists
CapacityDifference(r) ==
    IF \E o \in rooms : o.room_name = request.room_id /\ ~o.disabled
    THEN Abs(r.capacity - (CHOOSE o \in rooms :
                               o.room_name = request.room_id /\ ~o.disabled).capacity)
    ELSE 0

\* the room row a candidate proposes
ProposedRoom(rec) == CHOOSE r \in rooms : r.room_name = rec.suggestion.room_name

\* C19: the alternative-room strategy returns exactly the first min(5, n) of
\* the n qualifying rooms in ascending order of capacity difference.
C19_AlternativeRoomSelection ==
    pc = "room_done" =>
        /\ Len(response) = Min(5, Cardinality(QualifyingRooms))
        /\ \A i \in 1..Len(response) : ProposedRoom(response[i]) \in QualifyingRooms
        /\ \A i, j \in 1..Len(response) :
              i < j => /\ ProposedRoom(response[i]) # ProposedRoom(response[j])
                       /\ CapacityDifference(ProposedRoom(response[i]))
                              <= CapacityDifference(ProposedRoom(response[j]))
        /\ \A r \in QualifyingRooms :
              (\A i \in 1..Len(response) : ProposedRoom(response[i]) # r) =>
                  \A i \in 1..Len(response) :
                      CapacityDifference(ProposedRoom(response[i])) <= CapacityDifference(r)

\* C20: no same-day candidate of the alternative-time strategy has an
\* interval [start, start + duration) with its start or its end on another
\* calendar date than the request, and none has the requested interval.
C20_SameDayFilter ==
    pc = "base_done" =>
        \A i \in 1..Len(response) :
            Get(response[i], "is_same_day", FALSE) =>
                /\ DateOf(response[i].suggestion.start_time) = DateOf(request.start_time)
                /\ DateOf(response[i].suggestion.end_time) = DateOf(request.start_time)
                /\ ~(/\ response[i].suggestion.start_time = request.start_time
                     /\ response[i].suggestion.end_time = request.end_time)

\* a request with a start_time or an end_time that is no date
Unparseable(rd) == rd.start_time = NotATime \/ rd.end_time = NotATime

\* C21: when the start or end time of the request cannot be parsed, every
\* returned candidate with a start_time ends 240 minutes after its start.
C21_UnparseableDuration ==
    (Returned /\ Unparseable(request)) =>
        \A i \in 1..Len(response) :
            Has(response[i].suggestion, "start_time") =>
                response[i].suggestion.end_time
                    = ParseDatetime(response[i].suggestion.start_time) + 240 * Minute

\* the fields of a candidate that the two execution contexts must agree on
Scored(rec) ==
    <<rec.type, RoomNameOf(rec), rec.suggestion.start_time, rec.score,
      Get(rec, "ml_score", -1), Get(rec, "llm_score", -1), Get(rec, "final_score", -1)>>

\* the list the call would have returned in the other execution context
OtherContext ==
    HybridGetRecommendations(request, ~env.loop, env.raising, ml_available,
                             llm_available, base_weights)

\* C22: for the same request, store and ML/LLM availability,
\* get_recommendations returns the same ordered list with the same score,
\* ml_score, llm_score and final_score per candidate with an event loop
\* running (synchronous path) and without one (asynchronous path).
C22_SyncAsyncEquivalence ==
    Returned =>
        LET same(other) ==
                /\ Len(response) = Len(other)
                /\ \A i \in 1..Len(response) : Scored(response[i]) = Scored(other[i])
        IN  same(OtherContext)

\* the indices of the same-day and of the next-day candidates of a list
SameDayIndices(recommendations) ==
    {i \in 1..Len(recommendations) :
        Has(recommendations[i], "is_same_day") /\ recommendations[i].is_same_day}
NextDayIndices(recommendations) ==
    {i \in 1..Len(recommendations) :
        Has(recommendations[i], "is_same_day") /\ ~recommendations[i].is_same_day}

\* the requested room exists, is active and has no booking of status 0 that
\* overlaps [start, end)
RequestedRoomFree(start, end) ==
    \E r \in rooms :
        /\ r.room_name = request.room_id
        /\ ~r.disabled
        /\ ~\E e \in entries : /\ e.room_id = r.id
                               /\ e.status = 0
                               /\ e.start_time < end
                               /\ start < e.end_time

\* the requested time of day on each of the next 5 days, where conflict-free
FreeNextDayStarts ==
    {request.start_time + d * Day : d \in {d \in 1..5 :
        RequestedRoomFree(request.start_time + d * Day, request.end_time + d * Day)}}

\* C23: the alternative-time strategy returns next-day candidates (the same
\* time of day on each of the next 5 days, where conflict-free) if and only
\* if fewer than 3 same-day candidates survived the availability filter;
\* with 3 or more same-day survivors it returns no next-day candidate.
C23_NextDayExtension ==
    (pc = "base_done" /\ "alternative_time" \notin env.raising) =>
        LET next_day_starts ==
                {response[i].suggestion.start_time : i \in NextDayIndices(response)}
        IN  /\ Cardinality(SameDayIndices(response)) >= 3 => next_day_starts = {}
            /\ Cardinality(SameDayIndices(response)) < 3 =>
                  /\ next_day_starts \subseteq FreeNextDayStarts
                  /\ "availability" \notin env.raising =>
                        /\ next_day_starts = FreeNextDayStarts
                        /\ Cardinality(NextDayIndices(response))
                              = Cardinality(FreeNextDayStarts)

\* C23 witness: fewer than 3 same-day candidates survived, four of the next
\* five days are offered and one is left out for its conflict
C23_Witness ==
    /\ pc = "base_done"
    /\ env.raising = {}
    /\ Cardinality(SameDayIndices(response)) < 3
    /\ Cardinality(NextDayIndices(response)) = 4
    /\ Cardinality(FreeNextDayStarts) = 4

\* C23 second case: three or more same-day candidates survived although a
\* next day is free
ManySameDay ==
    /\ pc = "base_done"
    /\ env.raising = {}
    /\ Cardinality(SameDayIndices(response)) >= 3
    /\ FreeNextDayStarts # {}

\* C24: in the list the alternative-time strategy returns every same-day
\* candidate precedes every next-day candidate, the scores are non-increasing
\* within the same-day group and within the next-day group, and there are at
\* most 8 candidates.
C24_AlternativeTimeOrder ==
    (pc = "base_done" /\ "alternative_time" \notin env.raising) =>
        /\ \A i \in SameDayIndices(response), j \in NextDayIndices(response) : i < j
        /\ \A i, j \in SameDayIndices(response) :
              i < j => response[i].score >= response[j].score
        /\ \A i, j \in NextDayIndices(response) :
              i < j => response[i].score >= response[j].score
        /\ Cardinality(SameDayIndices(response) \cup NextDayIndices(response)) <= 8

\* C24 witness: two same-day candidates of different score and several
\* next-day candidates were returned
C24_Witness ==
    /\ pc = "base_done"
    /\ "alternative_time" \notin env.raising
    /\ \E i, j \in SameDayIndices(response) : response[i].score > response[j].score
    /\ Cardinality(NextDayIndices(response)) >= 2

\* the requested room is in the store and is not disabled
RequestedRoomActive == \E r \in rooms : r.room_name = request.room_id /\ ~r.disabled

\* C25: when the requested room does not exist or is disabled, the
\* alternative-time strategy returns zero candidates (and does not raise),
\* for every request.
C25_MissingRoom ==
    (pc = "time_done" /\ ~RequestedRoomActive) => response = <<>>

\* C25 witness: the strategy was asked for a disabled room of the store
\* while bookings are stored, and returned the empty list
C25_Witness ==
    /\ pc = "time_done"
    /\ \E r \in rooms : r.room_name = request.room_id /\ r.disabled
    /\ entries # {}
    /\ response = <<>>

\* the bookings of a room that the requesting user made for the 90 days
\* preceding the request
OwnBookings(r) ==
    {e \in entries : /\ e.room_id = r.id
                     /\ e.create_by = request.user_id
                     /\ e.start_time >= request.start_time - 90 * Day
                     /\ e.start_time < request.start_time}

\* the room is among the 5 rooms the user booked most often in that window
AmongTopFive(r) ==
    /\ OwnBookings(r) # {}
    /\ Cardinality({o \in rooms : Cardinality(OwnBookings(o))
                                      > Cardinality(OwnBookings(r))}) < 5

\* no booking of status 0 of the room overlaps the requested interval
FreeForRequest(r) ==
    ~\E e \in entries : /\ e.room_id = r.id
                         /\ e.status = 0
                         /\ e.start_time < request.end_time
                         /\ request.start_time < e.end_time

\* C26: every candidate of the proactive strategy proposes one of the at
\* most 5 rooms that the requesting user booked most often in the 90 days
\* preceding the request, the room is conflict-free in the requested
\* interval, and the score is min(0.7 + min(count * 0.05, 0.2), 1.0) for the
\* user's booking count of the room; a user without a booking in that window
\* gets no proactive candidate.
C26_Proactive ==
    pc = "proactive_done" =>
        /\ Len(response) <= 5
        /\ \A i \in 1..Len(response) :
              /\ response[i].type = "proactive"
              /\ AmongTopFive(ProposedRoom(response[i]))
              /\ FreeForRequest(ProposedRoom(response[i]))
              /\ response[i].score =
                    Min(P(700) + Min(Cardinality(OwnBookings(ProposedRoom(response[i])))
                                         * P(50), P(200)),
                        P(1000))
        /\ (\A r \in rooms : OwnBookings(r) = {}) => response = <<>>

\* the bookings of a room in the 30 days preceding the request that start in
\* the request's hour of day on the request's weekday
SlotBookings(r) ==
    {e \in entries : /\ e.room_id = r.id
                     /\ e.start_time >= request.start_time - 30 * Day
                     /\ e.start_time < request.start_time
                     /\ HourOf(e.start_time) = HourOf(request.start_time)
                     /\ Weekday(e.start_time) = Weekday(request.start_time)}

\* the room is among the 10 active rooms with the fewest such bookings
Considered(r) ==
    /\ ~r.disabled
    /\ Cardinality({o \in rooms : /\ ~o.disabled
                                   /\ Cardinality(SlotBookings(o))
                                         < Cardinality(SlotBookings(r))}) < 10

\* C27: the smart-scheduling strategy returns at most 3 candidates; they
\* propose rooms among the 10 active rooms with the fewest bookings of the
\* trailing 30 days at the request's hour of day and weekday, conflict-free in
\* the requested interval, in ascending order of that count, and no such
\* conflict-free room is left out in favour of one with a higher count.
C27_SmartScheduling ==
    pc = "smart_done" =>
        /\ Len(response) <= 3
        /\ \A i \in 1..Len(response) :
              /\ response[i].type = "smart_scheduling"
              /\ Considered(ProposedRoom(response[i]))
              /\ FreeForRequest(ProposedRoom(response[i]))
        /\ \A i, j \in 1..Len(response) :
              i < j => Cardinality(SlotBookings(ProposedRoom(response[i])))
                          <= Cardinality(SlotBookings(ProposedRoom(response[j])))
        /\ \A r \in rooms :
              (/\ Considered(r)
               /\ FreeForRequest(r)
               /\ \A i \in 1..Len(response) : ProposedRoom(response[i]) # r) =>
                  /\ Len(response) = 3
                  /\ \A i \in 1..Len(response) :
                        Cardinality(SlotBookings(ProposedRoom(response[i])))
                            <= Cardinality(SlotBookings(r))

\* C28: no two stored bookings of the same room have overlapping intervals
\* (b1.start < b2.end and b2.start < b1.end), after any sequence of
\* add_booking, update_booking, cancel_booking, delete_booking and
\* respond_swap calls on a store that started without overlaps.
C28_NoDoubleBooking ==
    \A b1, b2 \in entries :
        (b1.id # b2.id /\ b1.room_id = b2.room_id) =>
            ~(b1.start_time < b2.end_time /\ b2.start_time < b1.end_time)

\* C29: when two add_booking requests for the same room with overlapping
\* intervals are served at the same time, their conflict queries, inserts
\* and commits interleaved in any order, at most one of them ends with its
\* booking stored
C29_ConcurrentBooking ==
    \A w1, w2 \in Workers :
        (/\ w1 # w2
         /\ txns[w1].room_id = txns[w2].room_id
         /\ Timestamp(txns[w1].date, txns[w1].start_time)
               < Timestamp(txns[w2].date, txns[w2].end_time)
         /\ Timestamp(txns[w2].date, txns[w2].start_time)
               < Timestamp(txns[w1].date, txns[w1].end_time))
        => ~(txns[w1].status = "created" /\ txns[w2].status = "created")

\* the keys of a dict that two states of it agree on
SameAt(old, new, keys) ==
    \A k \in keys : /\ Has(old, k) <=> Has(new, k)
                    /\ Has(old, k) => old[k] = new[k]

\* a candidate after the normalizer against the candidate before it: its own
\* fields other than suggestion, start_time and end_time are as they were,
\* and so are the fields of its suggestion other than end_time and the two
\* duration fields
FramedCandidate(old, new) ==
    /\ SameAt(old, new, (DOMAIN old \cup DOMAIN new)
                          \ {"suggestion", "start_time", "end_time"})
    /\ Has(old, "suggestion") <=> Has(new, "suggestion")
    /\ Has(old, "suggestion") =>
          SameAt(old.suggestion, new.suggestion,
                 (DOMAIN old.suggestion \cup DOMAIN new.suggestion)
                    \ {"end_time", "duration_minutes", "duration_hours"})

\* the candidate's normalization raises
NormalizationRaises(rec) == Has(rec, "suggestion") /\ IsNone(rec.suggestion)

\* C30: _validate_and_fix_durations returns a list of the same length and in
\* the same order as its input; every candidate keeps its type, score,
\* final_score, suggestion.room_name and suggestion.start_time (of the
\* suggestion only end_time and the duration fields are rewritten), and a
\* candidate whose normalization raises is returned unchanged
C30_NormalizerFrame ==
    [][(pc = "ready" /\ pc' = "normalized") =>
          /\ Len(response') = Len(response)
          /\ \A i \in 1..Len(response) :
                /\ SameAt(response[i], response'[i], {"type", "score", "final_score"})
                /\ FramedCandidate(response[i], response'[i])
                /\ NormalizationRaises(response[i]) => response'[i] = response[i]
                /\ ~NormalizationRaises(response[i]) /\ Has(response[i], "suggestion") =>
                      SameAt(response[i].suggestion, response'[i].suggestion,
                             {"room_name", "start_time"})]_vars

\* the normalizer has returned a list with a candidate whose end_time it
\* rewrote to 240 minutes after the start and, after it, a candidate whose
\* normalization raised
C30_Witness ==
    /\ pc = "normalized"
    /\ Len(response) = 2
    /\ Has(response[1], "suggestion")
    /\ ~IsNone(response[1].suggestion)
    /\ Has(response[1].suggestion, "start_time")
    /\ response[1].suggestion.start_time = At(0, 11, 0, 0)
    /\ response[1].suggestion.end_time = At(0, 15, 0, 0)
    /\ NormalizationRaises(response[2])

====
